---- MODULE Spec2Model ----
(***************************************************************************)
(* A model of the multi-instance authentication runtime:                   *)
(*   - the instance status store kept in sessionStorage and the poll loop  *)
(*     of waitForParentAuthentication (instance-coordination.ts),          *)
(*   - the per-instance HttpClient request pipeline                        *)
(*     (axios-http-client.ts),                                             *)
(*   - the sub-organization registry of MultiOrgProvider.                  *)
(* Time is a millisecond clock `now`; a timer set with setTimeout fires    *)
(* at its due time, before the clock moves past it.                        *)
(***************************************************************************)
EXTENDS Integers, Sequences, FiniteSets, TLC

(* ------------------------------ bounds -------------------------------- *)

\* Milliseconds of fine-grained time explored after time 0 and after each idle period.
MaxTime == 200
\* Number of long idle periods (each StaleThreshold ms) the clock may take.
MaxIdle == 1
\* A waitForParent call starts at most this long after time 0 or after an idle period.
MaxStartDelay == 5
\* Milliseconds of time explored by the request pipeline's specification.
MaxPipeTime == 20
\* disableHandlerWithTimeout timers pending at one time.
MaxTimers == 2
\* registerSubOrg calls made in one behaviour.
MaxCalls == 2
MaxUrlLen == 6

(* ------------------------- program constants --------------------------- *)

\* instance-coordination.ts:182  Date.now() - parentStatus.timestamp > 120000
StaleThreshold == 120000
\* instance-coordination.ts:147  timeout: number = 30000
DefaultTimeout == 30000
\* instance-coordination.ts:148  pollInterval: number = 100
DefaultPollInterval == 100

\* axios-http-client.ts:52  DEFAULT_HANDLER_DISABLE_TIMEOUT
DEFAULT_HANDLER_DISABLE_TIMEOUT == 1000

\* InstanceAuthStatus
InstanceAuthStatus == {"initializing", "authenticating", "authenticated", "failed", "idle"}

\* The instance whose status is waited for (the root instance, id 0).
ParentId == 0

\* Clock steps the environment may take between events.
TimeSteps == {5}

\* Clock steps of the request pipeline's specification.
PipeTimeSteps == {10}

\* The instance ids pipelines are requested for.
PipeIds == {0, 1}

\* The timeout arguments of the modelled disableHandlerWithTimeout calls.
DisableArgs == {DEFAULT_HANDLER_DISABLE_TIMEOUT, 10}

\* The token attachers handed to init.
Attachers == {"attacherA", "attacherB"}

\* The callback slots of an HttpClient, and the callbacks handed to the setters: one
\* that returns and one that throws.
Slots == {"start", "success", "error", "finish"}
CallbackArgs == {"ok", "throws"}

\* The pipeline the specifications of the handlers and of the timers work on.
PipeId == 0

\* getInstance() called without an argument.
Omitted == -1

\* Organization ids, and the sub-instance ids registerSubOrg is called with.
Orgs == {"orgA", "orgB"}
SubIds == {1, 2}
CallIds == 1..MaxCalls

\* The values of the availableOrganizations prop: absent, or a list of organizations
\* (given by their ids).
\* The callbacks given to onParentSignOut; "cbThrows" throws when invoked.
Callbacks == {"cbA", "cbThrows"}

OrgLists == {[present |-> FALSE, ids |-> {}], [present |-> TRUE, ids |-> {}],
             [present |-> TRUE, ids |-> {"orgA"}], [present |-> TRUE, ids |-> Orgs]}

\* The characters of the modelled query strings; the text "state=instance_" is one.
Chars == {"?", "&", "state=instance_", "0", "1", "-"}

\* The instance ids hasCalledForThisInstanceInUrl is asked about.
UrlIds == {0, 1, 10}

\* The instance ids that use the status store: the root instance and a sub-instance.
StoreIds == {0, 1}

\* The methods of sessionStorage the store calls, and the conditions of the storage
\* that are modelled: working, unavailable, writes refused, reads failing.
StorageOps == {"getItem", "setItem", "removeItem"}
StorageConditions == {{}, StorageOps, {"setItem"}, {"getItem"}}

\* The statuses written by the setInstanceStatus calls that are split into their read
\* and their write.
RaceStatuses == {"authenticating", "authenticated"}

\* The (timeout, pollInterval) arguments of the modelled waitForParent calls.
WaitArgs == {<<DefaultTimeout, DefaultPollInterval>>, <<5000, 10>>, <<200, 50>>, <<20, 15>>, <<0, 10>>}

VARIABLES
    now,        \* Date.now()
    storage,    \* sessionStorage item 'asgardeo-instance-status'
    wait,       \* the waitForParentAuthentication call of the sub-instance
    authAt,     \* time since which the parent record is 'authenticated' during the call, or -1
    instances,  \* HttpClient.instances / clientInstances: per id, the pipeline object created for it (0: none yet)
    client,     \* per id, the fields of the HttpClient object (clientInstance)
    facade,     \* per id, the own property isHandlerEnabled of the axios instance getInstance returns
    timers,     \* pending setTimeout callbacks of disableHandlerWithTimeout
    req,        \* the request in flight
    out,        \* what the last step of a pipeline did: the handler run and the callbacks it fired
    expect,     \* per id, what the last enableHandler()/disableHandler() call asked for
    lastInit,   \* per id, the arguments of the last init call
    subOrgSessions, \* the state subOrgSessions of MultiOrgProvider: organization id -> SubOrgSession
    rendered,   \* the props and state the callbacks of the last render closed over
    calls,      \* the registerSubOrgProvider calls
    signOutCallbacks, \* signOutCallbacksRef.current, in insertion order
    notified,   \* the callbacks the last step invoked, in order
    unsubscribed, \* the callbacks whose unsubscribe closure was called since they were last added
    faults,     \* the sessionStorage methods that throw at present
    storeOut,   \* the last call of a status store function: its arguments and what it returned
    latest,     \* per instance id, the status of its latest setInstanceStatus call ("none" after a clear), while trusted
    trusted,    \* no status write was made under a storage fault since the table was last emptied
    racers,     \* per instance id, a setInstanceStatus call between its read and its write
    requested,  \* per instance id, the statuses it has asked to store since its last clearInstanceStatus
    search,     \* window.location.search, as a sequence of characters
    urlOut      \* the last hasCalledForThisInstanceInUrl call: its instance id and what it returned

waitVars == <<storage, wait, authAt>>
pipeVars == <<instances, client, facade, timers, req, out, expect, lastInit>>
orgVars == <<subOrgSessions, rendered, calls, signOutCallbacks, notified, unsubscribed>>
storeVars == <<faults, storeOut, latest, trusted, racers, requested>>
urlVars == <<search, urlOut>>
vars == <<now, storage, wait, authAt, instances, client, facade, timers, req, out, expect,
          lastInit,
          subOrgSessions, rendered, calls, signOutCallbacks, notified, unsubscribed,
          faults, storeOut, latest, trusted, racers, requested, search, urlOut>>

\* Long idle periods taken so far, and the time used since the last one.
idles == now \div StaleThreshold
fine == now % StaleThreshold

(* ---------------------- instance status store -------------------------- *)

\* The value getInstanceStatus returns when there is no record.
Null == [status |-> "null"]

\* sessionStorage.getItem(KEY) is null: no item is stored.
NoItem == [present |-> FALSE, map |-> <<>>]

\* The table held by the stored item, {} when there is none.
Persisted == IF storage.present THEN storage.map ELSE <<>>

\* getAllInstanceStatuses: the parsed item, {} when there is none; a getItem that
\* throws is caught inside the function, which then returns {} (lines 115-118).
getAllInstanceStatuses == IF "getItem" \in faults THEN <<>> ELSE Persisted

\* getInstanceStatus: allStatuses[instanceId] || null
getInstanceStatus(instanceId) ==
    IF instanceId \in DOMAIN getAllInstanceStatuses
    THEN getAllInstanceStatuses[instanceId]
    ELSE Null

\* A variant of WithStatus that writes the status into every record of the table.
WithStatus_Spill(all, instanceId, status) ==
    [k \in (DOMAIN all) \cup {instanceId} |->
        [instanceId |-> k, status |-> status, timestamp |-> now]]

\* A variant of WithStatus that keeps a record the instance already has.
WithStatus_KeepOld(all, instanceId, status) ==
    [k \in (DOMAIN all) \cup {instanceId} |->
        IF k = instanceId /\ k \notin DOMAIN all
        THEN [instanceId |-> instanceId, status |-> status, timestamp |-> now]
        ELSE all[k]]

\* The table after allStatuses[instanceId] = {instanceId, status, timestamp: Date.now()}.
WithStatus(all, instanceId, status) ==
    [k \in (DOMAIN all) \cup {instanceId} |->
        IF k = instanceId
        THEN [instanceId |-> instanceId, status |-> status, timestamp |-> now]
        ELSE all[k]]

\* A variant of WithoutStatus that empties the table.
WithoutStatus_All(all, instanceId) ==
    [k \in {} |-> all[k]]

\* The table after delete allStatuses[instanceId].
WithoutStatus(all, instanceId) ==
    [k \in (DOMAIN all) \ {instanceId} |-> all[k]]

\* authAt after the parent record changes to `status` ("null" when it is removed).
AuthAtAfter(instanceId, status) ==
    IF instanceId # ParentId THEN authAt
    ELSE IF status # "authenticated" THEN -1
    ELSE IF authAt # -1 THEN authAt
    ELSE IF wait.pc = "waiting" THEN now
    ELSE -1

\* A variant of Unguarded in which setInstanceStatus calls setItem outside its try block.
Unguarded_SetItem(fn) == IF fn = "setInstanceStatus" THEN {"setItem"} ELSE {}

\* The sessionStorage methods a store function calls outside a try block: none, each
\* function opens its try block first (lines 79, 98, 112, 126, 213); isParentReady has
\* no try block and calls only getInstanceStatus.
Unguarded(fn) == {}

\* An exception leaves the function fn.
Throws(fn) == Unguarded(fn) \cap faults # {}

\* No setInstanceStatus call is on record for any instance.
NoLatest == [i \in StoreIds |-> "none"]

NoStoreOut == [op |-> "none", instanceId |-> -1, status |-> "none", threw |-> FALSE,
               record |-> Null, table |-> <<>>, ready |-> FALSE]

\* What a call of fn(instanceId, status) reports when it returns nothing.
Returned(fn, instanceId, status) ==
    [NoStoreOut EXCEPT !.op = fn, !.instanceId = instanceId, !.status = status,
                       !.threw = Throws(fn)]

\* setInstanceStatus(instanceId, status); a setItem that throws is caught and logged.
setInstanceStatus(instanceId, status) ==
    /\ storage' = IF "setItem" \in faults THEN storage
                  ELSE [present |-> TRUE,
                        map |-> WithStatus(getAllInstanceStatuses, instanceId, status)]
    /\ authAt' = IF "setItem" \in faults THEN authAt ELSE AuthAtAfter(instanceId, status)
    /\ storeOut' = Returned("setInstanceStatus", instanceId, status)
    /\ trusted' = (trusted /\ faults = {})
    /\ latest' = IF trusted' THEN [latest EXCEPT ![instanceId] = status] ELSE NoLatest
    /\ UNCHANGED <<urlVars, now, wait, faults, racers, requested, pipeVars, orgVars>>

\* clearInstanceStatus(instanceId)
clearInstanceStatus(instanceId) ==
    /\ storage' = IF "setItem" \in faults THEN storage
                  ELSE [present |-> TRUE,
                        map |-> WithoutStatus(getAllInstanceStatuses, instanceId)]
    /\ authAt' = IF "setItem" \in faults THEN authAt ELSE AuthAtAfter(instanceId, "null")
    /\ storeOut' = Returned("clearInstanceStatus", instanceId, "none")
    /\ trusted' = (trusted /\ faults = {})
    /\ latest' = IF trusted' THEN [latest EXCEPT ![instanceId] = "none"] ELSE NoLatest
    /\ requested' = [requested EXCEPT ![instanceId] = {}]
    /\ UNCHANGED <<urlVars, now, wait, faults, racers, pipeVars, orgVars>>

\* clearAllInstanceStatuses(): sessionStorage.removeItem(KEY)
clearAllInstanceStatuses ==
    /\ storage' = IF "removeItem" \in faults THEN storage ELSE NoItem
    /\ authAt' = IF "removeItem" \in faults THEN authAt ELSE -1
    /\ storeOut' = Returned("clearAllInstanceStatuses", -1, "none")
    /\ latest' = NoLatest
    /\ trusted' = ("removeItem" \notin faults)
    /\ UNCHANGED <<urlVars, now, wait, faults, racers, requested, pipeVars, orgVars>>

\* A call getInstanceStatus(instanceId).
CallGetInstanceStatus(instanceId) ==
    /\ storeOut' = [Returned("getInstanceStatus", instanceId, "none")
                        EXCEPT !.record = getInstanceStatus(instanceId)]
    /\ UNCHANGED <<urlVars, now, waitVars, faults, latest, trusted, racers, requested,
                   pipeVars, orgVars>>

\* A call getAllInstanceStatuses().
CallGetAllInstanceStatuses ==
    /\ storeOut' = [Returned("getAllInstanceStatuses", -1, "none")
                        EXCEPT !.table = getAllInstanceStatuses]
    /\ UNCHANGED <<urlVars, now, waitVars, faults, latest, trusted, racers, requested,
                   pipeVars, orgVars>>

\* A variant of IsAuthenticated that takes every record that has not failed for ready.
IsAuthenticated_NotFailed(parentStatus) ==
    parentStatus # Null /\ parentStatus.status # "failed"

\* parentStatus?.status === 'authenticated'
IsAuthenticated(parentStatus) == parentStatus.status = "authenticated"

\* isParentReady(parentInstanceId)
isParentReady(parentInstanceId) ==
    /\ storeOut' = [Returned("isParentReady", parentInstanceId, "none")
                        EXCEPT !.ready = IsAuthenticated(getInstanceStatus(parentInstanceId))]
    /\ UNCHANGED <<urlVars, now, waitVars, faults, latest, trusted, racers, requested,
                   pipeVars, orgVars>>

\* The condition of sessionStorage changes (the browser blocks storage, the quota is
\* used up, or storage works again).
StorageCondition(f) ==
    /\ faults' = f
    /\ storeOut' = NoStoreOut
    /\ UNCHANGED <<urlVars, now, waitVars, latest, trusted, racers, requested, pipeVars, orgVars>>

\* A setInstanceStatus call that is between its read and its write: what it read.
NoRacer == [pc |-> "idle", status |-> "none", read |-> <<>>]

\* setInstanceStatus(instanceId, status) up to the end of its read of the table
\* (line 80), for a caller whose storage accesses interleave with those of other
\* instances.
setInstanceStatusRead(instanceId, status) ==
    /\ racers[instanceId].pc = "idle"
    /\ racers' = [racers EXCEPT ![instanceId] =
                     [pc |-> "read", status |-> status, read |-> getAllInstanceStatuses]]
    /\ requested' = [requested EXCEPT ![instanceId] = @ \cup {status}]
    /\ storeOut' = NoStoreOut
    /\ UNCHANGED <<urlVars, now, waitVars, faults, latest, trusted, pipeVars, orgVars>>

\* The rest of that call: its own record is put into the table it read and the table
\* is stored (lines 81-86).
setInstanceStatusWrite(instanceId) ==
    /\ racers[instanceId].pc = "read"
    /\ storage' = IF "setItem" \in faults THEN storage
                  ELSE [present |-> TRUE,
                        map |-> WithStatus(racers[instanceId].read, instanceId,
                                           racers[instanceId].status)]
    /\ racers' = [racers EXCEPT ![instanceId] = NoRacer]
    /\ storeOut' = Returned("setInstanceStatus", instanceId, racers[instanceId].status)
    /\ UNCHANGED <<urlVars, now, wait, authAt, faults, latest, trusted, requested, pipeVars, orgVars>>

\* clearInstanceStatus(instanceId) at the teardown of the instance, when no
\* setInstanceStatus call of its own is under way.
teardown(instanceId) ==
    /\ racers[instanceId].pc = "idle"
    /\ clearInstanceStatus(instanceId)

(* ------------------------ waitForParent -------------------------------- *)

\* Variants of checkParentStatus, each with one plausible slip.
\* The staleness check made before the status checks.
checkParentStatus_StaleFirst(elapsed, timeout, parentStatus, dateNow) ==
    IF elapsed >= timeout THEN "timeout"
    ELSE IF parentStatus # Null /\ dateNow - parentStatus.timestamp > StaleThreshold THEN "stale"
    ELSE IF parentStatus.status = "authenticated" THEN "authenticated"
    ELSE IF parentStatus.status = "failed" THEN "failed"
    ELSE "continue"

\* The timeout compared with > instead of >=.
checkParentStatus_LateTimeout(elapsed, timeout, parentStatus, dateNow) ==
    IF elapsed > timeout THEN "timeout"
    ELSE IF parentStatus.status = "authenticated" THEN "authenticated"
    ELSE IF parentStatus.status = "failed" THEN "failed"
    ELSE IF parentStatus # Null /\ dateNow - parentStatus.timestamp > StaleThreshold THEN "stale"
    ELSE "continue"

\* The status checks made before the timeout check.
checkParentStatus_StatusFirst(elapsed, timeout, parentStatus, dateNow) ==
    IF parentStatus.status = "authenticated" THEN "authenticated"
    ELSE IF parentStatus.status = "failed" THEN "failed"
    ELSE IF elapsed >= timeout THEN "timeout"
    ELSE IF parentStatus # Null /\ dateNow - parentStatus.timestamp > StaleThreshold THEN "stale"
    ELSE "continue"

\* The staleness check left out.
checkParentStatus_NoStale(elapsed, timeout, parentStatus, dateNow) ==
    IF elapsed >= timeout THEN "timeout"
    ELSE IF parentStatus.status = "authenticated" THEN "authenticated"
    ELSE IF parentStatus.status = "failed" THEN "failed"
    ELSE "continue"

\* 'authenticating' taken for 'authenticated'.
checkParentStatus_WrongStatus(elapsed, timeout, parentStatus, dateNow) ==
    IF elapsed >= timeout THEN "timeout"
    ELSE IF parentStatus.status = "authenticating" THEN "authenticated"
    ELSE IF parentStatus.status = "failed" THEN "failed"
    ELSE IF parentStatus # Null /\ dateNow - parentStatus.timestamp > StaleThreshold THEN "stale"
    ELSE "continue"

\* A missing record treated as a stale one.
checkParentStatus_AbsentStale(elapsed, timeout, parentStatus, dateNow) ==
    IF elapsed >= timeout THEN "timeout"
    ELSE IF parentStatus.status = "authenticated" THEN "authenticated"
    ELSE IF parentStatus.status = "failed" THEN "failed"
    ELSE IF parentStatus = Null \/ dateNow - parentStatus.timestamp > StaleThreshold THEN "stale"
    ELSE "continue"

\* The 'failed' branch left out.
checkParentStatus_NoFailed(elapsed, timeout, parentStatus, dateNow) ==
    IF elapsed >= timeout THEN "timeout"
    ELSE IF parentStatus.status = "authenticated" THEN "authenticated"
    ELSE IF parentStatus # Null /\ dateNow - parentStatus.timestamp > StaleThreshold THEN "stale"
    ELSE "continue"

\* A record with status idle taken for a failure.
checkParentStatus_IdleFails(elapsed, timeout, parentStatus, dateNow) ==
    IF elapsed >= timeout THEN "timeout"
    ELSE IF parentStatus.status = "authenticated" THEN "authenticated"
    ELSE IF parentStatus.status \in {"failed", "idle"} THEN "failed"
    ELSE IF parentStatus # Null /\ dateNow - parentStatus.timestamp > StaleThreshold THEN "stale"
    ELSE "continue"

\* The branch checkParentStatus takes at one poll.
checkParentStatus(elapsed, timeout, parentStatus, dateNow) ==
    IF elapsed >= timeout THEN "timeout"
    ELSE IF parentStatus.status = "authenticated" THEN "authenticated"
    ELSE IF parentStatus.status = "failed" THEN "failed"
    ELSE IF parentStatus # Null /\ dateNow - parentStatus.timestamp > StaleThreshold THEN "stale"
    ELSE "continue"

\* What a poll read from the store: the status ("null": no record) and whether the
\* record was older than the staleness threshold.
Seen(parentStatus, dateNow) ==
    [status |-> parentStatus.status,
     stale  |-> parentStatus # Null /\ dateNow - parentStatus.timestamp > StaleThreshold]

NotSeen == [status |-> "null", stale |-> FALSE]

\* The call before it starts. Besides the call's own state (pc, startTime, the
\* arguments, timer: a setTimeout callback is pending, due: when it fires, result: the
\* value the promise resolved with) the record keeps what its polls did:
\*   branch      the branch the last poll took,
\*   lastStored  the parent record in the store at the last poll,
\*   allNull     no poll has found a parent record so far,
\*   firstAuth   the store held an authenticated record at the first poll,
\*   sawAuth     a poll made before the timeout read status authenticated,
\*   sawFreshAuth  ... from a record no older than the staleness threshold.
WaitIdle ==
    [pc |-> "idle", startTime |-> 0, timeout |-> 0, pollInterval |-> 0,
     timer |-> FALSE, due |-> 0, result |-> FALSE, resolvedAt |-> 0,
     branch |-> "none", lastStored |-> NotSeen, allNull |-> TRUE,
     firstAuth |-> FALSE, sawAuth |-> FALSE, sawFreshAuth |-> FALSE]

\* One run of checkParentStatus for the call w at the current time.
Polled(w) ==
    LET elapsed == now - w.startTime
        seen    == getInstanceStatus(ParentId)
        branch  == checkParentStatus(elapsed, w.timeout, seen, now)
        isAuth  == elapsed < w.timeout /\ seen.status = "authenticated"
        h       == [w EXCEPT !.lastStored = Seen(seen, now),
                             !.allNull = w.allNull /\ seen = Null,
                             !.firstAuth = IF w.pc = "idle"
                                           THEN seen.status = "authenticated"
                                           ELSE w.firstAuth,
                             !.sawAuth = w.sawAuth \/ isAuth,
                             !.sawFreshAuth = w.sawFreshAuth
                                              \/ (isAuth /\ ~Seen(seen, now).stale),
                             !.branch = branch]
    IN  IF branch = "continue"
        THEN [h EXCEPT !.pc = "waiting", !.timer = TRUE, !.due = now + w.pollInterval]
        ELSE [h EXCEPT !.pc = "resolved", !.timer = FALSE,
                       !.result = (branch = "authenticated"), !.resolvedAt = now]

\* waitForParentAuthentication(ParentId, timeout, pollInterval): the first check runs at once.
StartWait(timeout, pollInterval) ==
    /\ wait.pc = "idle"
    /\ fine <= MaxStartDelay
    /\ wait' = Polled([WaitIdle EXCEPT !.startTime = now, !.timeout = timeout,
                                       !.pollInterval = pollInterval])
    /\ UNCHANGED <<urlVars, now, storage, authAt, storeVars, pipeVars, orgVars>>

\* The setTimeout(checkParentStatus, pollInterval) callback.
PollTimer ==
    /\ wait.timer
    /\ now = wait.due
    /\ wait' = Polled(wait)
    /\ UNCHANGED <<urlVars, now, storage, authAt, storeVars, pipeVars, orgVars>>

(* ------------------------ request pipeline ----------------------------- *)

\* The fields of a new HttpClient (lines 46-51): the handler enabled, an attacher that
\* does nothing, and in every callback slot the initial function () => null ("noop").
NewClient == [isHandlerEnabled |-> TRUE, attachToken |-> "default",
              callbacks |-> [sl \in Slots |-> "noop"]]

NoRequest == [id |-> -1, stage |-> "none", attacher |-> "none"]
\* fired: the callbacks invoked, in order; threw: one of them threw; result: what left
\* the handler; attacher: the token attacher invoked.
\* object: the pipeline object getInstance returned.
NoOut == [id |-> -1, kind |-> "none", fired |-> <<>>, threw |-> FALSE, result |-> "none",
          attacher |-> "none", object |-> 0]

\* The number of pipeline objects created so far; objects are numbered in the order of
\* their creation.
Created == Cardinality({i \in PipeIds : instances[i] # 0})

\* A variant of WithInstance that creates a pipeline object on every call.
WithInstance_Fresh(id) == [instances EXCEPT ![id] = Created + 1]

\* The map HttpClient.instances after getInstance(id): the object stored for id is kept
\* when there is one (lines 76-78), else a new one is created and stored (lines
\* 80-113).
WithInstance(id) ==
    IF instances[id] # 0 THEN instances ELSE [instances EXCEPT ![id] = Created + 1]

\* The id getInstance works on: instanceId: number = 0 (line 75).
InstanceIdOf(instanceId) == IF instanceId = Omitted THEN 0 ELSE instanceId

\* HttpClient.getInstance(instanceId): the pipeline is created on first use.
getInstance(instanceId) ==
    /\ instances' = WithInstance(InstanceIdOf(instanceId))
    /\ out' = [NoOut EXCEPT !.id = InstanceIdOf(instanceId), !.kind = "getInstance",
                            !.object = instances'[InstanceIdOf(instanceId)]]
    /\ UNCHANGED <<urlVars, now, waitVars, storeVars, orgVars, client, facade, timers, req, expect, lastInit>>

\* The timers of pipeline id no longer count as undisturbed once enableHandler or init ran.
Disturbed(id) == {[tm EXCEPT !.intact = (tm.intact /\ tm.id # id)] : tm \in timers}

\* No init call was made.
NoInit == [isHandlerEnabled |-> TRUE, attachToken |-> "none", pure |-> FALSE]

\* lastInit after a call or timer that sets a handler flag of pipeline id.
Impure(id) == [lastInit EXCEPT ![id].pure = FALSE]

\* A variant of Configured that keeps an attacher that was configured before.
Configured_KeepAttacher(c, isHandlerEnabled, attachToken) ==
    [c EXCEPT !.isHandlerEnabled = isHandlerEnabled,
              !.attachToken = IF c.attachToken = "default" THEN attachToken
                              ELSE c.attachToken]

\* The client after this.isHandlerEnabled = isHandlerEnabled; this.attachToken =
\* attachToken (lines 201-202).
Configured(c, isHandlerEnabled, attachToken) ==
    [c EXCEPT !.isHandlerEnabled = isHandlerEnabled, !.attachToken = attachToken]

\* getInstance(id).init(isHandlerEnabled, attachToken). init is bound to the HttpClient
\* in its constructor (line 61), so it sets the client's fields.
init(id, isHandlerEnabled, attachToken) ==
    /\ instances' = WithInstance(id)
    /\ client' = [client EXCEPT ![id] = Configured(client[id], isHandlerEnabled, attachToken)]
    /\ timers' = Disturbed(id)
    /\ expect' = [expect EXCEPT ![id] = "unknown"]
    /\ lastInit' = [lastInit EXCEPT ![id] = [isHandlerEnabled |-> isHandlerEnabled,
                                             attachToken |-> attachToken, pure |-> TRUE]]
    /\ out' = NoOut
    /\ UNCHANGED <<urlVars, now, waitVars, storeVars, orgVars, facade, req>>

\* The object `this` refers to in enableHandler, disableHandler and
\* disableHandlerWithTimeout when they are called on the object getInstance returned:
\* they are copied to the axios instance unbound (lines 104-106) and the constructor
\* binds only init and the four callback setters (lines 61-65).
HandlerThis == "facade"

\* The target's isHandlerEnabled set to v for pipeline id.
SetHandlerFlag(id, v) ==
    IF HandlerThis = "client"
    THEN /\ client' = [client EXCEPT ![id].isHandlerEnabled = v]
         /\ UNCHANGED facade
    ELSE /\ facade' = [facade EXCEPT ![id] = IF v THEN "true" ELSE "false"]
         /\ UNCHANGED client

\* getInstance(id).enableHandler()
enableHandler(id) ==
    /\ instances' = WithInstance(id)
    /\ SetHandlerFlag(id, TRUE)
    /\ timers' = Disturbed(id)
    /\ expect' = [expect EXCEPT ![id] = "on"]
    /\ lastInit' = Impure(id)
    /\ out' = NoOut
    /\ UNCHANGED <<urlVars, now, waitVars, storeVars, orgVars, req>>

\* getInstance(id).disableHandler()
disableHandler(id) ==
    /\ instances' = WithInstance(id)
    /\ SetHandlerFlag(id, FALSE)
    /\ expect' = [expect EXCEPT ![id] = "off"]
    /\ lastInit' = Impure(id)
    /\ out' = NoOut
    /\ UNCHANGED <<urlVars, now, waitVars, storeVars, orgVars, timers, req>>

\* getInstance(id).disableHandlerWithTimeout(timeout)
disableHandlerWithTimeout(id, timeout) ==
    /\ Cardinality(timers) < MaxTimers
    /\ instances' = WithInstance(id)
    /\ SetHandlerFlag(id, FALSE)
    /\ timers' = timers \cup {[id |-> id, due |-> now + timeout, intact |-> TRUE]}
    /\ expect' = [expect EXCEPT ![id] = "unknown"]
    /\ lastInit' = Impure(id)
    /\ out' = NoOut
    /\ UNCHANGED <<urlVars, now, waitVars, storeVars, orgVars, req>>

\* The setTimeout callback of disableHandlerWithTimeout (lines 227-229); it is never
\* cancelled.
HandlerTimer(tm) ==
    /\ tm \in timers
    /\ now = tm.due
    /\ SetHandlerFlag(tm.id, TRUE)
    /\ timers' = timers \ {tm}
    /\ out' = [NoOut EXCEPT !.id = tm.id,
                             !.kind = IF tm.intact THEN "timer" ELSE "timer-disturbed"]
    /\ expect' = [expect EXCEPT ![tm.id] = "unknown"]
    /\ lastInit' = Impure(tm.id)
    /\ UNCHANGED <<urlVars, now, waitVars, storeVars, orgVars, instances, req>>

\* this.requestXCallback = callback: the setters are bound to the HttpClient in its
\* constructor (lines 62-65), so they set the client's slots.
SetCallback(id, slot, callback) ==
    /\ instances' = WithInstance(id)
    /\ client' = [client EXCEPT ![id].callbacks[slot] = callback]
    /\ out' = NoOut
    /\ UNCHANGED <<urlVars, now, waitVars, storeVars, orgVars, facade, timers, req, expect, lastInit>>

\* getInstance(id).setHttpRequestStartCallback(callback) and the three other setters
setHttpRequestStartCallback(id, callback) == SetCallback(id, "start", callback)
setHttpRequestSuccessCallback(id, callback) == SetCallback(id, "success", callback)
setHttpRequestErrorCallback(id, callback) == SetCallback(id, "error", callback)
setHttpRequestFinishCallback(id, callback) == SetCallback(id, "finish", callback)

\* The slots of `cbs` that hold a callback given to a setter, in order. (The initial
\* () => null of a slot is called like any other but does nothing; it is not listed.)
Registered(id, cbs) == SelectSeq(cbs, LAMBDA sl : client[id].callbacks[sl] # "noop")

\* The position of the first callback of the sequence that throws, 0 when none does.
FirstThrow(id, cbs) ==
    LET throwing == {k \in DOMAIN cbs : client[id].callbacks[cbs[k]] = "throws"}
    IN IF throwing = {} THEN 0 ELSE CHOOSE k \in throwing : \A l \in throwing : k <= l

\* A variant of Invoked in which each callback runs in a try block of its own.
Invoked_Isolated(id, cbs) == Registered(id, cbs)

\* The callbacks invoked when the handler calls those of `cbs` one after the other with
\* no try block around them: a callback that throws ends the handler.
Invoked(id, cbs) ==
    LET reg == Registered(id, cbs)
    IN IF FirstThrow(id, reg) = 0 THEN reg ELSE SubSeq(reg, 1, FirstThrow(id, reg))

\* The callbacks a handler fires: those of `cbs` when the client's flag is set.
Fired(id, cbs) == IF client[id].isHandlerEnabled THEN Invoked(id, cbs) ELSE <<>>

\* An exception of a callback leaves the handler.
Threw(id, cbs) ==
    /\ Fired(id, cbs) # <<>>
    /\ client[id].callbacks[Fired(id, cbs)[Len(Fired(id, cbs))]] = "throws"

\* What a handler run reports: the callbacks fired and what leaves the handler, the
\* exception of a callback when one threw, else `result`.
HandlerOut(id, kind, cbs, result) ==
    [NoOut EXCEPT !.id = id, !.kind = kind, !.fired = Fired(id, cbs),
                  !.threw = Threw(id, cbs),
                  !.result = IF Threw(id, cbs) THEN "callback-exception" ELSE result]

\* A variant of Attach that skips the attacher while the handler is disabled.
Attach_WhenEnabled(id) ==
    IF client[id].isHandlerEnabled THEN client[id].attachToken ELSE "none"

\* The attacher requestHandler invokes: this.attachToken, before the flag is looked at
\* (line 126).
Attach(id) == client[id].attachToken

\* requestHandler up to `await this.attachToken(request)` (line 126).
requestHandlerBegin(id) ==
    /\ instances[id] # 0
    /\ req = NoRequest
    /\ req' = [id |-> id, stage |-> "attaching", attacher |-> Attach(id)]
    /\ out' = [NoOut EXCEPT !.id = id, !.kind = "attach", !.attacher = Attach(id)]
    /\ UNCHANGED <<urlVars, now, waitVars, storeVars, orgVars, instances, client, facade, timers, expect, lastInit>>

\* The attacher's promise rejects: the rejection leaves requestHandler at line 126.
\* The default attacher, () => Promise.resolve(), never rejects.
requestHandlerRejected(id) ==
    /\ req.id = id /\ req.stage = "attaching"
    /\ req.attacher \in Attachers
    /\ req' = NoRequest
    /\ out' = [NoOut EXCEPT !.id = id, !.kind = "attach-failed", !.result = "attach-error",
                            !.attacher = req.attacher]
    /\ UNCHANGED <<urlVars, now, waitVars, storeVars, orgVars, instances, client, facade, timers, expect, lastInit>>

\* requestHandler after the token is attached (lines 128-145).
requestHandlerEnd(id) ==
    /\ req.id = id /\ req.stage = "attaching"
    /\ req' = IF Threw(id, <<"start">>) THEN NoRequest ELSE [req EXCEPT !.stage = "sent"]
    /\ out' = HandlerOut(id, "request", <<"start">>, "request")
    /\ UNCHANGED <<urlVars, now, waitVars, storeVars, orgVars, instances, client, facade, timers, expect, lastInit>>

\* successHandler(response) (lines 176-186)
successHandler(id) ==
    /\ req.id = id /\ req.stage = "sent"
    /\ req' = NoRequest
    /\ out' = HandlerOut(id, "success", <<"success", "finish">>, "response")
    /\ UNCHANGED <<urlVars, now, waitVars, storeVars, orgVars, instances, client, facade, timers, expect, lastInit>>

\* errorHandler(error) (lines 156-166)
errorHandler(id) ==
    /\ req.id = id /\ req.stage = "sent"
    /\ req' = NoRequest
    /\ out' = HandlerOut(id, "error", <<"error", "finish">>, "error")
    /\ UNCHANGED <<urlVars, now, waitVars, storeVars, orgVars, instances, client, facade, timers, expect, lastInit>>

(* ---------------------- MultiOrgProvider -------------------------------- *)

\* A variant of validateOrganizationMembership that accepts every id when the list is
\* not empty.
validateOrganizationMembership_AnyList(availableOrganizations, organizationId) ==
    availableOrganizations.present /\ availableOrganizations.ids # {}

\* validateOrganizationMembership(organizationId), over the list a callback closed over.
validateOrganizationMembership(availableOrganizations, organizationId) ==
    IF ~availableOrganizations.present \/ availableOrganizations.ids = {}
    THEN FALSE
    ELSE organizationId \in availableOrganizations.ids

\* A render of MultiOrgProvider with the given props: the callbacks it creates close
\* over these props and over the current subOrgSessions state.
Render(isParentSignedIn, availableOrganizations) ==
    /\ rendered' = [isParentSignedIn |-> isParentSignedIn,
                    availableOrganizations |-> availableOrganizations,
                    subOrgSessions |-> subOrgSessions]
    /\ notified' = <<>>
    /\ UNCHANGED <<urlVars, now, waitVars, storeVars, pipeVars, subOrgSessions, calls, signOutCallbacks, unsubscribed>>

\* An availableOrganizations prop that was not given.
NoOrganizations == [present |-> FALSE, ids |-> {}]

NoCall == [pc |-> "idle", organizationId |-> "", subInstanceId |-> 0, result |-> "none",
           during |-> 0, peerDone |-> FALSE, existed |-> FALSE, overrun |-> FALSE,
           availableOrganizations |-> NoOrganizations]

\* What `find` gives when no organization of the list has the id: undefined.
NoOrganization == [id |-> "undefined"]

\* A variant of Find that takes the first organization of the list.
Find_First(availableOrganizations, organizationId) ==
    IF availableOrganizations.present /\ availableOrganizations.ids # {}
    THEN [id |-> IF "orgA" \in availableOrganizations.ids THEN "orgA"
                 ELSE CHOOSE o \in availableOrganizations.ids : TRUE]
    ELSE NoOrganization

\* availableOrganizations.find(org => org.id === organizationId) (line 143).
Find(availableOrganizations, organizationId) ==
    IF availableOrganizations.present /\ organizationId \in availableOrganizations.ids
    THEN [id |-> organizationId]
    ELSE NoOrganization

\* The session a call builds after its exchange (lines 143-151), from the arguments
\* and the availableOrganizations prop it closed over.
SessionOfCall(c) ==
    [organization |-> Find(calls[c].availableOrganizations, calls[c].organizationId),
     instanceId |-> calls[c].subInstanceId, isActive |-> TRUE, createdAt |-> now]

\* A variant of Precheck that looks at the session map before the membership.
Precheck_SessionFirst(r, organizationId) ==
    IF ~r.isParentSignedIn THEN "NotSignedIn"
    ELSE IF organizationId \in DOMAIN r.subOrgSessions
            /\ r.subOrgSessions[organizationId].isActive
         THEN "AlreadyExists"
    ELSE IF ~validateOrganizationMembership(r.availableOrganizations, organizationId)
         THEN "InvalidOrg"
    ELSE "exchange"

\* A variant of Precheck that looks at the membership before the sign-in state.
Precheck_MembershipFirst(r, organizationId) ==
    IF ~validateOrganizationMembership(r.availableOrganizations, organizationId)
    THEN "InvalidOrg"
    ELSE IF ~r.isParentSignedIn THEN "NotSignedIn"
    ELSE IF organizationId \in DOMAIN r.subOrgSessions
            /\ r.subOrgSessions[organizationId].isActive
         THEN "AlreadyExists"
    ELSE "exchange"

\* The outcome of the three checks registerSubOrgProvider makes before the token
\* exchange (lines 107-137), against the props and state it closed over.
Precheck(r, organizationId) ==
    IF ~r.isParentSignedIn THEN "NotSignedIn"
    ELSE IF ~validateOrganizationMembership(r.availableOrganizations, organizationId)
         THEN "InvalidOrg"
    ELSE IF organizationId \in DOMAIN r.subOrgSessions
            /\ r.subOrgSessions[organizationId].isActive
         THEN "AlreadyExists"
    ELSE "exchange"

\* The calls awaiting their token exchange for organizationId.
Awaiting(organizationId) ==
    {c \in CallIds : calls[c].pc = "awaiting" /\ calls[c].organizationId = organizationId}

\* registerSubOrgProvider(organizationId, subInstanceId) up to `await
\* exchangeTokenForOrg(organizationId)` (line 140), or to the error it throws.
\* during: a call for the same organization that was awaiting its exchange when this
\* one started (0: none); existed: the session map held a record for the organization;
\* overrun: signOutAllSubOrgs, or unregisterSubOrgProvider for the organization, ran
\* while the call was awaiting its exchange; availableOrganizations: the prop the call
\* closed over, kept while it awaits.
registerSubOrgProviderBegin(c, organizationId, subInstanceId) ==
    /\ calls[c].pc = "idle"
    /\ LET check == Precheck(rendered, organizationId)
           others == Awaiting(organizationId)
           start == [NoCall EXCEPT !.organizationId = organizationId,
                                   !.subInstanceId = subInstanceId,
                                   !.during = IF others = {} THEN 0
                                              ELSE CHOOSE o \in others : TRUE,
                                   !.existed = organizationId \in DOMAIN subOrgSessions]
       IN calls' = [calls EXCEPT ![c] =
                       IF check = "exchange"
                       THEN [start EXCEPT !.pc = "awaiting",
                                          !.availableOrganizations =
                                              rendered.availableOrganizations]
                       ELSE [start EXCEPT !.pc = "done", !.result = check]]
    /\ notified' = <<>>
    /\ UNCHANGED <<urlVars, now, waitVars, storeVars, pipeVars, subOrgSessions, rendered, signOutCallbacks, unsubscribed>>

\* A variant of WithSession that builds the new map from the new session alone.
WithSession_Alone(prev, organizationId, session) ==
    [o \in {organizationId} |-> session]

\* A variant of WithSession that leaves an active session of the organization alone.
WithSession_KeepActive(prev, organizationId, session) ==
    IF organizationId \in DOMAIN prev /\ prev[organizationId].isActive
    THEN prev
    ELSE [o \in (DOMAIN prev) \cup {organizationId} |->
            IF o = organizationId THEN session ELSE prev[o]]

\* The map after newMap.set(organizationId, session) (lines 146-157).
WithSession(prev, organizationId, session) ==
    [o \in (DOMAIN prev) \cup {organizationId} |->
        IF o = organizationId THEN session ELSE prev[o]]

\* A variant of registerSubOrgProviderEnd in which a call that signOutAllSubOrgs or
\* unregisterSubOrgProvider overran returns its token without recording a session.
registerSubOrgProviderEnd_Cancellable(c) ==
    /\ calls[c].pc = "awaiting"
    /\ subOrgSessions' = IF calls[c].overrun THEN subOrgSessions
                         ELSE [o \in (DOMAIN subOrgSessions) \cup {calls[c].organizationId} |->
                                 IF o = calls[c].organizationId
                                 THEN SessionOfCall(c)
                                 ELSE subOrgSessions[o]]
    /\ calls' = [calls EXCEPT ![c].pc = "done", ![c].result = "token",
                               ![c].availableOrganizations = NoOrganizations,
                               ![c].peerDone = (calls[c].during # 0
                                                /\ calls[calls[c].during].result = "token")]
    /\ notified' = <<>>
    /\ UNCHANGED <<urlVars, now, waitVars, storeVars, pipeVars, rendered, signOutCallbacks, unsubscribed>>

\* The token exchange of call c resolves: the session is recorded and the token
\* response returned (lines 142-159). peerDone: the call `during` had returned its
\* token by now.
registerSubOrgProviderEnd(c) ==
    /\ calls[c].pc = "awaiting"
    /\ subOrgSessions' = WithSession(subOrgSessions, calls[c].organizationId,
                                      SessionOfCall(c))
    /\ calls' = [calls EXCEPT ![c].pc = "done", ![c].result = "token",
                               ![c].availableOrganizations = NoOrganizations,
                               ![c].peerDone = (calls[c].during # 0
                                                /\ calls[calls[c].during].result = "token")]
    /\ notified' = <<>>
    /\ UNCHANGED <<urlVars, now, waitVars, storeVars, pipeVars, rendered, signOutCallbacks, unsubscribed>>

\* A variant of Rejection in which the call wraps the failure in an error of its own.
Rejection_Wrapped(error) == "RegistrationFailed"

\* What the call throws when `await exchangeTokenForOrg(organizationId)` rejects with
\* `error`: the await is in no try block, so the same error.
Rejection(error) == error

\* The token exchange of call c rejects: the rejection leaves the call (line 140).
registerSubOrgProviderRejected(c) ==
    /\ calls[c].pc = "awaiting"
    /\ calls' = [calls EXCEPT ![c].pc = "done", ![c].result = Rejection("ExchangeFailed"),
                               ![c].availableOrganizations = NoOrganizations]
    /\ notified' = <<>>
    /\ UNCHANGED <<urlVars, now, waitVars, storeVars, pipeVars, subOrgSessions, rendered, signOutCallbacks, unsubscribed>>

\* A variant of Deactivated that deletes the record.
Deactivated_Deleted(prev, organizationId) ==
    [o \in (DOMAIN prev) \ {organizationId} |-> prev[o]]

\* The map after unregisterSubOrgProvider's update (lines 168-176): the session of the
\* organization, when there is one, is replaced by a copy with isActive false.
Deactivated(prev, organizationId) ==
    IF organizationId \in DOMAIN prev
    THEN [prev EXCEPT ![organizationId].isActive = FALSE]
    ELSE prev

\* unregisterSubOrgProvider(organizationId)
unregisterSubOrgProvider(organizationId) ==
    /\ subOrgSessions' = Deactivated(subOrgSessions, organizationId)
    /\ calls' = [c \in CallIds |->
                   IF c \in Awaiting(organizationId)
                   THEN [calls[c] EXCEPT !.overrun = TRUE] ELSE calls[c]]
    /\ notified' = <<>>
    /\ UNCHANGED <<urlVars, now, waitVars, storeVars, pipeVars, rendered, signOutCallbacks, unsubscribed>>

\* A variant of Notified in which the exception of a callback ends the loop.
Notified_UntilThrow(cbs) ==
    LET throwing == {k \in DOMAIN cbs : cbs[k] = "cbThrows"}
    IN IF throwing = {} THEN cbs
       ELSE SubSeq(cbs, 1, CHOOSE k \in throwing : \A l \in throwing : k <= l)

\* The callbacks signOutCallbacksRef.current.forEach invokes: each is called in a try
\* block of its own (lines 186-191), so all of them, in the order of the set.
Notified(cbs) == cbs

\* A variant of signOutAllSubOrgs that drops the subscriptions once the callbacks have
\* been notified.
signOutAllSubOrgs_Unsubscribing ==
    /\ notified' = signOutCallbacks
    /\ subOrgSessions' = <<>>
    /\ signOutCallbacks' = <<>>
    /\ calls' = [c \in CallIds |->
                   IF calls[c].pc = "awaiting"
                   THEN [calls[c] EXCEPT !.overrun = TRUE] ELSE calls[c]]
    /\ UNCHANGED <<urlVars, now, waitVars, storeVars, pipeVars, rendered, unsubscribed>>

\* signOutAllSubOrgs(): every subscribed callback is invoked in the order of the set,
\* what one throws is caught and logged, then setSubOrgSessions(new Map()).
signOutAllSubOrgs ==
    /\ notified' = Notified(signOutCallbacks)
    /\ subOrgSessions' = <<>>
    /\ calls' = [c \in CallIds |->
                   IF calls[c].pc = "awaiting"
                   THEN [calls[c] EXCEPT !.overrun = TRUE] ELSE calls[c]]
    /\ UNCHANGED <<urlVars, now, waitVars, storeVars, pipeVars, rendered, signOutCallbacks, unsubscribed>>

\* The members of a sequence.
Range(q) == {q[i] : i \in DOMAIN q}

\* The set after add(callback): a Set keeps one entry per function, in insertion order.
Added(cbs, callback) ==
    IF callback \in Range(cbs) THEN cbs ELSE Append(cbs, callback)

\* A variant of Deleted that empties the set.
Deleted_All(cbs, callback) == <<>>

\* The set after delete(callback).
Deleted(cbs, callback) == SelectSeq(cbs, LAMBDA x : x # callback)

\* onParentSignOut(callback): signOutCallbacksRef.current.add(callback)
onParentSignOut(callback) ==
    /\ signOutCallbacks' = Added(signOutCallbacks, callback)
    /\ unsubscribed' = unsubscribed \ {callback}
    /\ notified' = <<>>
    /\ UNCHANGED <<urlVars, now, waitVars, storeVars, pipeVars, subOrgSessions, rendered, calls>>

\* The closure onParentSignOut(callback) returned:
\* signOutCallbacksRef.current.delete(callback)
unsubscribe(callback) ==
    /\ signOutCallbacks' = Deleted(signOutCallbacks, callback)
    /\ unsubscribed' = unsubscribed \cup {callback}
    /\ notified' = <<>>
    /\ UNCHANGED <<urlVars, now, waitVars, storeVars, pipeVars, subOrgSessions, rendered, calls>>

(* ------------------- hasCalledForThisInstanceInUrl ---------------------- *)

NoUrlOut == [instanceId |-> -1, result |-> FALSE]

\* `${instanceId}` in the template literal: the decimal digits of the number.
RECURSIVE Decimal(_)
Decimal(n) ==
    LET digit == <<"0", "1", "2", "3", "4", "5", "6", "7", "8", "9">>[(n % 10) + 1]
    IN IF n < 10 THEN <<digit>> ELSE Append(Decimal(n \div 10), digit)

\* The elements of a pattern: a literal character, one character of a class, one or
\* more characters outside a class.
Lit(ch) == [kind |-> "lit", chars |-> {ch}]
OneOf(set) == [kind |-> "oneOf", chars |-> set]
PlusNot(set) == [kind |-> "plusNot", chars |-> set]

\* A variant of Matcher without the hyphen after the instance id.
Matcher_NoHyphen(instanceId) ==
    <<OneOf({"?", "&"}), Lit("state=instance_")>>
        \o [k \in 1..Len(Decimal(instanceId)) |-> Lit(Decimal(instanceId)[k])]
        \o <<PlusNot({"&"})>>

\* new RegExp(`[?&]state=instance_${instanceId}-[^&]+`) (line 27).
Matcher(instanceId) ==
    <<OneOf({"?", "&"}), Lit("state=instance_")>>
        \o [k \in 1..Len(Decimal(instanceId)) |-> Lit(Decimal(instanceId)[k])]
        \o <<Lit("-"), PlusNot({"&"})>>

\* The pattern from its element j on matches the string at position k.
RECURSIVE MatchesAt(_, _, _, _)
MatchesAt(pattern, s, j, k) ==
    IF j > Len(pattern) THEN TRUE
    ELSE IF k > Len(s) THEN FALSE
    ELSE IF pattern[j].kind = "plusNot"
         THEN /\ s[k] \notin pattern[j].chars
              /\ MatchesAt(pattern, s, j, k + 1) \/ MatchesAt(pattern, s, j + 1, k + 1)
         ELSE /\ s[k] \in pattern[j].chars
              /\ MatchesAt(pattern, s, j + 1, k + 1)

\* RegExp.prototype.test of a pattern with no anchors: a match at some position.
Test(pattern, s) == \E k \in 1..Len(s) : MatchesAt(pattern, s, 1, k)

\* hasCalledForThisInstanceInUrl(instanceId, params) (lines 26-30)
hasCalledForThisInstanceInUrl(instanceId, params) == Test(Matcher(instanceId), params)

\* The page is at a URL whose query string is one character longer.
Typed(ch) ==
    /\ Len(search) < MaxUrlLen
    /\ search' = Append(search, ch)
    /\ urlOut' = NoUrlOut
    /\ UNCHANGED <<now, waitVars, storeVars, pipeVars, orgVars>>

\* The page is at a URL with no query string.
Navigated ==
    /\ search' = <<>>
    /\ urlOut' = NoUrlOut
    /\ UNCHANGED <<now, waitVars, storeVars, pipeVars, orgVars>>

\* A call hasCalledForThisInstanceInUrl(instanceId) with params left to its default.
CallHasCalledForThisInstanceInUrl(instanceId) ==
    /\ urlOut' = [instanceId |-> instanceId,
                  result |-> hasCalledForThisInstanceInUrl(instanceId, search)]
    /\ UNCHANGED <<now, waitVars, storeVars, pipeVars, orgVars, search>>

(* ------------------------------- time ---------------------------------- *)

\* No pending timer is due before time t.
NoTimerBefore(t) ==
    /\ wait.timer => t <= wait.due
    /\ \A tm \in timers : t <= tm.due

\* The clock is followed while the call is idle or in progress; states after its
\* resolution differ only in the store.
Advance(d) ==
    /\ wait.pc # "resolved"
    /\ fine + d <= MaxTime
    /\ NoTimerBefore(now + d)
    /\ now' = now + d
    /\ UNCHANGED <<urlVars, storage, wait, authAt, storeVars, pipeVars, orgVars>>

\* The clock of the request pipeline's specification.
AdvancePipe(d) ==
    /\ now + d <= MaxPipeTime
    /\ NoTimerBefore(now + d)
    /\ now' = now + d
    /\ out' = NoOut
    /\ UNCHANGED <<urlVars, waitVars, storeVars, orgVars, instances, client, facade, timers, req, expect, lastInit>>

\* A long period in which nothing happens: the clock moves on by StaleThreshold.
IdlePeriod ==
    /\ wait.pc # "resolved"
    /\ idles < MaxIdle
    /\ NoTimerBefore(now + StaleThreshold)
    /\ now' = now + StaleThreshold
    /\ UNCHANGED <<urlVars, storage, wait, authAt, storeVars, pipeVars, orgVars>>

(* --------------------------- specifications ---------------------------- *)

Init ==
    /\ now = 0
    /\ storage = NoItem
    /\ wait = WaitIdle
    /\ authAt = -1
    /\ instances = [id \in PipeIds |-> 0]
    /\ client = [id \in PipeIds |-> NewClient]
    /\ facade = [id \in PipeIds |-> "unset"]
    /\ timers = {}
    /\ req = NoRequest
    /\ out = NoOut
    /\ expect = [id \in PipeIds |-> "unknown"]
    /\ lastInit = [id \in PipeIds |-> NoInit]
    /\ subOrgSessions = <<>>
    /\ rendered = [isParentSignedIn |-> FALSE,
                   availableOrganizations |-> [present |-> FALSE, ids |-> {}],
                   subOrgSessions |-> <<>>]
    /\ calls = [c \in CallIds |-> NoCall]
    /\ signOutCallbacks = <<>>
    /\ notified = <<>>
    /\ unsubscribed = {}
    /\ faults = {}
    /\ storeOut = NoStoreOut
    /\ latest = NoLatest
    /\ trusted = TRUE
    /\ racers = [i \in StoreIds |-> NoRacer]
    /\ requested = [i \in StoreIds |-> {}]
    /\ search = <<>>
    /\ urlOut = NoUrlOut

NextStore ==
    \/ \E i \in StoreIds, st \in InstanceAuthStatus : setInstanceStatus(i, st)
    \/ \E i \in StoreIds : clearInstanceStatus(i)
    \/ clearAllInstanceStatuses
    \/ \E i \in StoreIds : CallGetInstanceStatus(i)
    \/ CallGetAllInstanceStatuses
    \/ \E i \in StoreIds : isParentReady(i)
    \/ \E f \in StorageConditions : StorageCondition(f)

SpecStore == Init /\ [][NextStore]_vars

NextRace ==
    \/ \E i \in StoreIds, st \in RaceStatuses : setInstanceStatusRead(i, st)
    \/ \E i \in StoreIds : setInstanceStatusWrite(i)

SpecRace == Init /\ [][NextRace]_vars

NextTeardown ==
    \/ \E i \in StoreIds, st \in RaceStatuses : setInstanceStatusRead(i, st)
    \/ \E i \in StoreIds : setInstanceStatusWrite(i)
    \/ \E i \in StoreIds : teardown(i)

SpecTeardown == Init /\ [][NextTeardown]_vars

NextUrl ==
    \/ \E ch \in Chars : Typed(ch)
    \/ Navigated
    \/ \E i \in UrlIds : CallHasCalledForThisInstanceInUrl(i)

SpecUrl == Init /\ [][NextUrl]_vars

NextOrg ==
    \/ \E p \in BOOLEAN, l \in OrgLists : Render(p, l)
    \/ \E c \in CallIds, o \in Orgs, i \in SubIds : registerSubOrgProviderBegin(c, o, i)
    \/ \E c \in CallIds : registerSubOrgProviderEnd(c)
    \/ \E c \in CallIds : registerSubOrgProviderRejected(c)
    \/ \E o \in Orgs : unregisterSubOrgProvider(o)
    \/ signOutAllSubOrgs

SpecOrg == Init /\ [][NextOrg]_vars

NextSignOut ==
    \/ \E p \in BOOLEAN : Render(p, [present |-> TRUE, ids |-> {"orgA"}])
    \/ \E c \in CallIds : registerSubOrgProviderBegin(c, "orgA", 1)
    \/ \E c \in CallIds : registerSubOrgProviderEnd(c)
    \/ signOutAllSubOrgs
    \/ \E cb \in Callbacks : onParentSignOut(cb)
    \/ \E cb \in Callbacks : unsubscribe(cb)

SpecSignOut == Init /\ [][NextSignOut]_vars

NextPipe ==
    \/ getInstance(PipeId)
    \/ \E e \in BOOLEAN : init(PipeId, e, "attacherA")
    \/ enableHandler(PipeId)
    \/ disableHandler(PipeId)
    \/ \E ms \in DisableArgs : disableHandlerWithTimeout(PipeId, ms)
    \/ \E tm \in timers : HandlerTimer(tm)
    \/ setHttpRequestStartCallback(PipeId, "ok")
    \/ setHttpRequestSuccessCallback(PipeId, "ok")
    \/ setHttpRequestErrorCallback(PipeId, "ok")
    \/ setHttpRequestFinishCallback(PipeId, "ok")
    \/ requestHandlerBegin(PipeId)
    \/ requestHandlerRejected(PipeId)
    \/ requestHandlerEnd(PipeId)
    \/ successHandler(PipeId)
    \/ errorHandler(PipeId)
    \/ \E d \in PipeTimeSteps : AdvancePipe(d)

SpecPipe == Init /\ [][NextPipe]_vars

NextIsolation ==
    \/ \E i \in PipeIds \cup {Omitted} : getInstance(i)
    \/ \E id \in PipeIds, e \in BOOLEAN : init(id, e, "attacherA")
    \/ \E id \in PipeIds : enableHandler(id)
    \/ \E id \in PipeIds : disableHandler(id)
    \/ \E id \in PipeIds : disableHandlerWithTimeout(id, 10)
    \/ \E tm \in timers : HandlerTimer(tm)
    \/ \E id \in PipeIds : setHttpRequestStartCallback(id, "ok")
    \/ \E d \in PipeTimeSteps : AdvancePipe(d)

SpecIsolation == Init /\ [][NextIsolation]_vars

NextHandlers ==
    \/ getInstance(PipeId)
    \/ \E e \in BOOLEAN, a \in Attachers : init(PipeId, e, a)
    \/ enableHandler(PipeId)
    \/ disableHandler(PipeId)
    \/ \E cb \in CallbackArgs : setHttpRequestStartCallback(PipeId, cb)
    \/ \E cb \in CallbackArgs : setHttpRequestSuccessCallback(PipeId, cb)
    \/ \E cb \in CallbackArgs : setHttpRequestErrorCallback(PipeId, cb)
    \/ \E cb \in CallbackArgs : setHttpRequestFinishCallback(PipeId, cb)
    \/ requestHandlerBegin(PipeId)
    \/ requestHandlerRejected(PipeId)
    \/ requestHandlerEnd(PipeId)
    \/ successHandler(PipeId)
    \/ errorHandler(PipeId)

SpecHandlers == Init /\ [][NextHandlers]_vars

NextWait ==
    \/ \E s \in InstanceAuthStatus : setInstanceStatus(ParentId, s)
    \/ clearInstanceStatus(ParentId)
    \/ clearAllInstanceStatuses
    \/ \E a \in WaitArgs : StartWait(a[1], a[2])
    \/ PollTimer
    \/ \E d \in TimeSteps : Advance(d)
    \/ IdlePeriod

SpecWait == Init /\ [][NextWait]_vars


(* ===================== claims: waitForParent =========================== *)

\* The time of the call's last poll, and the time elapsed in the call at that poll.
LastPollAt == IF wait.pc = "resolved" THEN wait.resolvedAt ELSE wait.due - wait.pollInterval
LastElapsed == LastPollAt - wait.startTime
Max(a, b) == IF a >= b THEN a ELSE b
InProgressStatus == {"initializing", "authenticating", "idle"}

\* C4 (as stated): the call returns true iff a poll made before the timeout read status
\* authenticated from a record no older than the staleness threshold; a stale record
\* of any status gives false.
C4_Original ==
    wait.pc = "resolved" => (wait.result <=> wait.sawFreshAuth)

\* C4 (amended): the call returns true iff a poll made before the timeout read status
\* authenticated, whatever the age of the record; otherwise it returns false through
\* the failed, the stale (a record that is not authenticated) or the timeout branch.
C4_TrueIffAuthenticatedSeen ==
    wait.pc = "resolved" =>
        /\ wait.result <=> wait.sawAuth
        /\ ~wait.result => wait.branch \in {"failed", "stale", "timeout"}
        /\ wait.branch = "stale" => wait.lastStored.status \in InProgressStatus

\* C4 witness: a call that returned true on an authenticated record older than the threshold.
C4_Witness ==
    /\ wait.pc = "resolved" /\ wait.result
    /\ wait.lastStored.status = "authenticated" /\ wait.lastStored.stale

\* C5: a call is never pending later than timeoutMs plus one poll interval after its
\* start: its pending timer is due before that, the clock never passes a due timer, and
\* a resolved call resolved within that time.
C5_ResolvesWithinTimeoutPlusInterval ==
    /\ wait.pc = "waiting" =>
          /\ wait.timer /\ now <= wait.due
          /\ wait.due - wait.startTime < Max(wait.timeout, 0) + wait.pollInterval
    /\ wait.pc = "resolved" =>
          /\ ~wait.timer
          /\ wait.resolvedAt - wait.startTime < Max(wait.timeout, 0) + wait.pollInterval

\* C5 witness: a call resolved by the timeout branch at a poll later than timeoutMs.
C5_Witness ==
    /\ wait.pc = "resolved" /\ wait.branch = "timeout"
    /\ wait.resolvedAt - wait.startTime > wait.timeout /\ wait.timeout > 0

\* C6: a poll made when timeoutMs or more have elapsed resolves the call with false,
\* whatever the store holds.
C6_TimeoutPollResolvesFalse ==
    (wait.pc # "idle" /\ LastElapsed >= wait.timeout) =>
        /\ wait.pc = "resolved" /\ ~wait.result /\ wait.branch = "timeout"

\* C6 witness: a timed-out poll made while the store held an authenticated record.
C6_Witness ==
    /\ wait.pc = "resolved" /\ ~wait.result /\ LastElapsed >= wait.timeout
    /\ wait.lastStored.status = "authenticated"

\* C7: a poll before the timeout that reads initializing, authenticating or idle from
\* a record older than 120000 ms resolves the call with false at that poll.
C7_StaleInProgressResolvesFalse ==
    (wait.pc # "idle" /\ LastElapsed < wait.timeout
       /\ wait.lastStored.status \in InProgressStatus /\ wait.lastStored.stale) =>
        /\ wait.pc = "resolved" /\ ~wait.result /\ wait.branch = "stale" /\ ~wait.timer

\* C7 witness: a call resolved false on a stale 'authenticating' record after at least
\* one earlier poll.
C7_Witness ==
    /\ wait.pc = "resolved" /\ wait.branch = "stale"
    /\ wait.lastStored.status = "authenticating" /\ wait.resolvedAt > wait.startTime

\* C8 (as stated): when the parent wrote authenticated at T < start + timeoutMs during
\* the call and the record stayed, the call resolves true by T + pollInterval; a call
\* started on an authenticated record resolves true at its first poll.
C8_Original ==
    /\ (authAt # -1 /\ authAt < wait.startTime + wait.timeout) =>
          /\ wait.pc = "waiting" => now <= authAt + wait.pollInterval
          /\ wait.pc = "resolved" =>
                wait.result /\ wait.resolvedAt <= authAt + wait.pollInterval
    /\ wait.firstAuth =>
          wait.pc = "resolved" /\ wait.result /\ wait.resolvedAt = wait.startTime

\* C8 (amended): when the parent wrote authenticated at T during the call and the
\* record stayed, the next poll is made by T + pollInterval and resolves the call,
\* with true if that poll is made before start + timeoutMs; a call with timeoutMs > 0
\* started on an authenticated record resolves true at its first poll.
C8_AuthenticatedSeenAtNextPoll ==
    /\ authAt # -1 =>
          /\ wait.pc = "waiting" => now <= authAt + wait.pollInterval
          /\ wait.pc = "resolved" =>
                /\ wait.resolvedAt <= authAt + wait.pollInterval
                /\ wait.result <=> wait.resolvedAt - wait.startTime < wait.timeout
    /\ (wait.firstAuth /\ wait.timeout > 0) =>
          wait.pc = "resolved" /\ wait.result /\ wait.resolvedAt = wait.startTime

\* C8 witness: the scenario waitForParent(0, 5000, 10) started at t=5, authenticated
\* written at t=50, resolved true at t=55.
C8_Witness ==
    /\ wait.pc = "resolved" /\ wait.result
    /\ wait.timeout = 5000 /\ wait.pollInterval = 10 /\ wait.startTime = 5
    /\ authAt = 50 /\ wait.resolvedAt = 55

\* C9: a poll before the timeout that finds no parent record keeps the call polling;
\* a call none of whose polls found a record resolves false through the timeout
\* branch at its first poll at or after timeoutMs (waitForParent(0, 200, 50): at 200).
C9_AbsentKeepsPolling ==
    /\ (wait.pc # "idle" /\ LastElapsed < wait.timeout /\ wait.lastStored.status = "null") =>
          wait.pc = "waiting" /\ wait.timer /\ wait.due = LastPollAt + wait.pollInterval
    /\ (wait.pc = "resolved" /\ wait.allNull) =>
          /\ ~wait.result /\ wait.branch = "timeout"
          /\ LastElapsed >= wait.timeout
          /\ LastElapsed = 0 \/ LastElapsed - wait.pollInterval < wait.timeout
          /\ (wait.timeout = 200 /\ wait.pollInterval = 50) => LastElapsed = 200

\* C9 witness: waitForParent(0, 200, 50) with no parent record at any poll, resolved at 200.
C9_Witness ==
    /\ wait.pc = "resolved" /\ wait.allNull /\ ~wait.result
    /\ wait.timeout = 200 /\ wait.pollInterval = 50 /\ wait.startTime = 0
    /\ wait.resolvedAt = 200

\* C10: a poll before the timeout that reads status failed resolves the call with
\* false at that poll and leaves no timer pending.
C10_FailedResolvesFalse ==
    (wait.pc # "idle" /\ LastElapsed < wait.timeout /\ wait.lastStored.status = "failed") =>
        /\ wait.pc = "resolved" /\ ~wait.result /\ wait.branch = "failed"
        /\ ~wait.timer /\ wait.resolvedAt = LastPollAt

\* C10 witness: a call resolved false on a failed record at a poll after its first.
C10_Witness ==
    /\ wait.pc = "resolved" /\ wait.branch = "failed" /\ ~wait.result
    /\ wait.resolvedAt > wait.startTime

\* C37: a poll before the timeout that reads status idle from a record no older than
\* 120000 ms keeps the call polling, and a call whose last poll read idle has resolved,
\* if at all, with false through the timeout or the staleness branch.
C37_IdleKeepsPolling ==
    /\ (wait.pc # "idle" /\ LastElapsed < wait.timeout
          /\ wait.lastStored.status = "idle" /\ ~wait.lastStored.stale) =>
          /\ wait.pc = "waiting" /\ wait.branch = "continue"
          /\ wait.timer /\ wait.due = LastPollAt + wait.pollInterval
    /\ (wait.pc = "resolved" /\ wait.lastStored.status = "idle") =>
          /\ ~wait.result
          /\ wait.branch \in {"timeout", "stale"}
          /\ wait.branch = "timeout" <=> LastElapsed >= wait.timeout
          /\ wait.branch = "stale" => wait.lastStored.stale

\* C37 witness: a call still polling after a poll, later than its first, that read a
\* fresh idle record.
C37_Witness ==
    /\ wait.pc = "waiting" /\ wait.branch = "continue"
    /\ wait.lastStored.status = "idle" /\ ~wait.lastStored.stale
    /\ LastPollAt > wait.startTime

(* ===================== claims: request pipeline ======================== *)

HandlerKinds == {"request", "success", "error"}

\* The callbacks of each handler, in the order the handler calls them.
StageSlots(kind) ==
    IF kind = "request" THEN <<"start">>
    ELSE IF kind = "success" THEN <<"success", "finish">>
    ELSE <<"error", "finish">>

\* C2 (as stated): after disableHandler() on the object getInstance(N) returned, no
\* lifecycle callback fires in a handler of pipeline N until enableHandler() or init is
\* called; after enableHandler() the handlers fire the callbacks that are set. (expect[N] is
\* "off" / "on" from such a call until the next init, timed disable or timer of N.)
C2_Original ==
    \A id \in PipeIds :
        (out.id = id /\ out.kind \in HandlerKinds) =>
            /\ expect[id] = "off" => out.fired = <<>>
            /\ expect[id] = "on" => out.fired = Registered(id, StageSlots(out.kind))

\* C3 (as stated): while a disableHandlerWithTimeout timer is pending and neither
\* enableHandler() nor init was called since its call, the handler of that pipeline is
\* disabled; when such a timer has fired the handler is enabled.
C3_Original ==
    /\ \A tm \in timers : tm.intact => ~client[tm.id].isHandlerEnabled
    /\ out.kind = "timer" => client[out.id].isHandlerEnabled

\* C35 (as stated): a pending timer of disableHandlerWithTimeout stays pending until it
\* fires, whatever is called in between, and when it fires the handler flag of its
\* pipeline, the one the interceptors read, is true.
C35_Original ==
    [][/\ \A tm \in timers :
             \/ \E t2 \in timers' : t2.id = tm.id /\ t2.due = tm.due
             \/ now = tm.due /\ out'.kind \in {"timer", "timer-disturbed"} /\ out'.id = tm.id
       /\ out'.kind \in {"timer", "timer-disturbed"} =>
             client'[out'.id].isHandlerEnabled]_vars

(* ===================== claims: MultiOrgProvider ======================== *)

\* C1 (as stated): a registerSubOrg call started while another call for the same
\* organization was awaiting its token exchange fails with AlreadyExists once that
\* call has completed, and no call fails with AlreadyExists while the session map holds
\* no record for the organization.
C1_Original ==
    /\ \A c \in CallIds :
          (calls[c].pc = "done" /\ calls[c].during # 0 /\ calls[c].peerDone) =>
              calls[c].result = "AlreadyExists"
    /\ \A c \in CallIds :
          calls[c].result = "AlreadyExists" => calls[c].existed

\* Call c is made in this step.
Started(c) == calls[c].pc = "idle" /\ calls'[c].pc # "idle"

\* The token exchange of call c resolves, respectively rejects, in this step.
ExchangeResolved(c) ==
    calls[c].pc = "awaiting" /\ calls'[c].pc = "done" /\ calls'[c].result = "token"

ExchangeRejected(c) ==
    calls[c].pc = "awaiting" /\ calls'[c].pc = "done" /\ calls'[c].result # "token"

\* The organization is a member of the current availableOrganizations prop.
IsMember(organizationId) ==
    /\ rendered.availableOrganizations.present
    /\ organizationId \in rendered.availableOrganizations.ids

\* The registration state of an organization in a session map.
OrgState(sessions, organizationId) ==
    IF organizationId \notin DOMAIN sessions THEN "unregistered"
    ELSE IF sessions[organizationId].isActive THEN "active"
    ELSE "inactive"

\* The session of an organization in a session map, Null when it has none.
SessionOf(sessions, organizationId) ==
    IF organizationId \in DOMAIN sessions THEN sessions[organizationId] ELSE Null

\* C23: a registerSubOrg call made while the parent is not signed in fails with
\* NotSignedIn at once, whether or not the organization is a member: it never awaits
\* the token exchange and the session map is left as it was.
C23_NotSignedInAlwaysFails ==
    [][\A c \in CallIds :
          (Started(c) /\ ~rendered.isParentSignedIn) =>
              /\ calls'[c].pc = "done"
              /\ calls'[c].result = "NotSignedIn"
              /\ subOrgSessions' = subOrgSessions]_vars

C23_Witness ==
    /\ ~rendered.isParentSignedIn
    /\ rendered.availableOrganizations.ids = {"orgA"}
    /\ calls[1].pc = "done" /\ calls[1].organizationId = "orgA"
    /\ calls[1].result = "NotSignedIn"
    /\ calls[2].pc = "done" /\ calls[2].organizationId = "orgB"
    /\ calls[2].result = "NotSignedIn"

\* C24 (as stated): a registerSubOrg call made with the parent signed in and the
\* organization a member fails with AlreadyExists exactly when the session map holds
\* an active session for the organization at the time of the call; in particular a
\* call made after unregisterSubOrg, when the record is inactive, does not fail so.
C24_Original ==
    [][\A c \in CallIds :
          (Started(c) /\ rendered.isParentSignedIn /\ IsMember(calls'[c].organizationId)) =>
              (calls'[c].result = "AlreadyExists"
                  <=> OrgState(subOrgSessions, calls'[c].organizationId) = "active")]_vars

\* C25: when the token exchange of a call rejects, the call fails with the rejection
\* of the exchange itself, and neither the start of the call nor the rejection changes
\* the session map.
C25_ExchangeFailurePropagates ==
    [][\A c \in CallIds :
          /\ Started(c) => subOrgSessions' = subOrgSessions
          /\ ExchangeRejected(c) =>
                /\ calls'[c].result = "ExchangeFailed"
                /\ subOrgSessions' = subOrgSessions]_vars

C25_Witness ==
    \E c \in CallIds :
        /\ calls[c].pc = "done" /\ calls[c].result = "ExchangeFailed"
        /\ calls[c].existed
        /\ OrgState(subOrgSessions, calls[c].organizationId) = "inactive"
        /\ subOrgSessions[calls[c].organizationId].instanceId # calls[c].subInstanceId

\* C26: when the token exchange of a call resolves, the call returns the token and
\* the session map holds for its organization an active session with the instance id
\* of the call, whatever record was there before; the records of the other
\* organizations are unchanged.
C26_SuccessRecordsActiveSession ==
    [][\A c \in CallIds :
          (calls[c].pc = "awaiting" /\ calls'[c].pc = "done"
           /\ calls'[c].result # "ExchangeFailed") =>
              LET org == calls[c].organizationId
              IN /\ calls'[c].result = "token"
                 /\ OrgState(subOrgSessions', org) = "active"
                 /\ subOrgSessions'[org].instanceId = calls[c].subInstanceId
                 /\ subOrgSessions'[org].organization.id = org
                 /\ \A o \in Orgs \ {org} :
                       SessionOf(subOrgSessions', o) = SessionOf(subOrgSessions, o)]_vars

C26_Witness ==
    \E c \in CallIds :
        /\ calls[c].pc = "done" /\ calls[c].result = "token" /\ calls[c].existed
        /\ calls[c].organizationId = "orgA" /\ calls[c].subInstanceId = 2
        /\ OrgState(subOrgSessions, "orgA") = "active"
        /\ subOrgSessions["orgA"].instanceId = 2
        /\ \E d \in CallIds \ {c} :
              /\ calls[d].result = "token" /\ calls[d].organizationId = "orgA"
              /\ calls[d].subInstanceId = 1 /\ calls[c].during = 0

\* C27: the registration state of an organization changes only from unregistered or
\* inactive to active when a registration for it completes, from active to inactive
\* in unregisterSubOrg for it, which changes nothing else of the record, and to
\* unregistered in signOutAllSubOrgs; unregisterSubOrg never removes a record.
C27_SessionLifecycle ==
    [][\A o \in Orgs :
          LET before == OrgState(subOrgSessions, o)
              after == OrgState(subOrgSessions', o)
          IN /\ before # after =>
                  \/ /\ before \in {"unregistered", "inactive"} /\ after = "active"
                     /\ \E c \in CallIds : ExchangeResolved(c) /\ calls[c].organizationId = o
                  \/ /\ before = "active" /\ after = "inactive"
                     /\ unregisterSubOrgProvider(o)
                     /\ subOrgSessions'[o] = [subOrgSessions[o] EXCEPT !.isActive = FALSE]
                  \/ /\ after = "unregistered"
                     /\ signOutAllSubOrgs
             /\ unregisterSubOrgProvider(o) =>
                  /\ DOMAIN subOrgSessions' = DOMAIN subOrgSessions
                  /\ \A p \in Orgs \ {o} :
                        SessionOf(subOrgSessions', p) = SessionOf(subOrgSessions, p)
                  /\ before # "active" => subOrgSessions' = subOrgSessions]_vars

C27_Witness ==
    /\ OrgState(subOrgSessions, "orgA") = "inactive"
    /\ subOrgSessions["orgA"].instanceId = 1
    /\ OrgState(subOrgSessions, "orgB") = "active"
    /\ \E c \in CallIds : calls[c].organizationId = "orgA" /\ calls[c].result = "token"

\* C28: signOutAllSubOrgs invokes every subscribed callback exactly once, those after
\* a throwing one included, leaves the subscriptions as they are and empties the
\* session map.
C28_SignOutNotifiesAllAndClears ==
    [][(notified' # <<>> \/ signOutAllSubOrgs) =>
          /\ Range(notified') = Range(signOutCallbacks)
          /\ Len(notified') = Cardinality(Range(signOutCallbacks))
          /\ subOrgSessions' = <<>>]_vars

C28_Witness ==
    /\ notified = <<"cbThrows", "cbA">>
    /\ subOrgSessions = <<>>
    /\ \E c \in CallIds : calls[c].result = "token"

\* C29: onParentSignOut(cb) adds cb to the subscriptions and its unsubscribe closure
\* removes cb and nothing else, changing nothing when cb is not subscribed; a callback
\* unsubscribed since it was last added is not invoked by signOutAllSubOrgs, and the
\* ones still subscribed are.
C29_UnsubscribeRemovesOnlyItself ==
    /\ [](/\ Range(signOutCallbacks) \cap unsubscribed = {}
          /\ Range(notified) \cap unsubscribed = {}
          /\ notified # <<>> => Range(notified) = Range(signOutCallbacks))
    /\ [][\A cb \in Callbacks :
             /\ onParentSignOut(cb) =>
                   Range(signOutCallbacks') = Range(signOutCallbacks) \cup {cb}
             /\ unsubscribe(cb) =>
                   /\ Range(signOutCallbacks') = Range(signOutCallbacks) \ {cb}
                   /\ cb \notin Range(signOutCallbacks) =>
                         signOutCallbacks' = signOutCallbacks]_vars

C29_Witness ==
    /\ unsubscribed = {"cbThrows"}
    /\ signOutCallbacks = <<"cbA">>
    /\ notified = <<"cbA">>

\* C38: signOutAllSubOrgs leaves the subscriptions as they are, so that a sign-out
\* that follows another invokes the same callbacks again; the subscriptions change
\* only in onParentSignOut and in an unsubscribe closure.
C38_SignOutKeepsSubscriptions ==
    [][/\ (notified' # <<>> \/ signOutAllSubOrgs) =>
             /\ signOutCallbacks' = signOutCallbacks
             /\ unsubscribed' = unsubscribed
             /\ notified # <<>> => notified' = notified
       /\ signOutCallbacks' # signOutCallbacks =>
             \E cb \in Callbacks : onParentSignOut(cb) \/ unsubscribe(cb)]_vars

C38_Witness ==
    /\ notified = <<"cbA", "cbThrows">>
    /\ signOutCallbacks = notified
    /\ subOrgSessions = <<>>
    /\ \E c \in CallIds : calls[c].result = "token" /\ calls[c].overrun

\* C39: every session of the session map is stored under the id of its own
\* organization, which is defined, and carries the instance id of a call made for
\* that organization.
C39_SessionsKeyedByOwnOrganization ==
    \A o \in DOMAIN subOrgSessions :
        /\ o \in Orgs
        /\ subOrgSessions[o].organization # NoOrganization
        /\ subOrgSessions[o].organization.id = o
        /\ \E c \in CallIds :
              /\ calls[c].result = "token" /\ calls[c].organizationId = o
              /\ calls[c].subInstanceId = subOrgSessions[o].instanceId

\* C39 witness: sessions of both organizations, that of orgB recorded by a call whose
\* exchange resolved after orgB had left the availableOrganizations list.
C39_Witness ==
    /\ DOMAIN subOrgSessions = Orgs
    /\ subOrgSessions["orgB"].isActive
    /\ rendered.availableOrganizations.ids = {"orgA"}
    /\ rendered.subOrgSessions = <<>>

\* C30: validateOrganizationMembership answers true exactly for the ids of the
\* organizations in the current availableOrganizations list, and false when the list
\* is absent or empty; a call made with the parent signed in fails with InvalidOrg
\* exactly when it answers false.
C30_MembershipIsListMembership ==
    /\ [](\A o \in Orgs :
             validateOrganizationMembership(rendered.availableOrganizations, o)
                 = IsMember(o))
    /\ [][\A c \in CallIds :
             (Started(c) /\ rendered.isParentSignedIn) =>
                 (calls'[c].result = "InvalidOrg" <=> ~IsMember(calls'[c].organizationId))]_vars

C30_Witness ==
    /\ rendered.isParentSignedIn
    /\ ~rendered.availableOrganizations.present
    /\ calls[1].pc = "done" /\ calls[1].result = "InvalidOrg"
    /\ \E c \in CallIds : calls[c].result = "token" /\ calls[c].organizationId = "orgB"

\* C31: the preconditions of registerSubOrg are evaluated in the order signed-in,
\* membership, no active session in the map the call sees: a call made while the
\* parent is not signed in fails with NotSignedIn; one made while it is signed in for a
\* non-member fails with InvalidOrg, whatever the session map holds; AlreadyExists is
\* for signed-in calls for a member only; and the token exchange is awaited exactly
\* when the three checks pass.
C31_PreconditionOrder ==
    [][\A c \in CallIds :
          Started(c) =>
              LET org == calls'[c].organizationId
                  seen == OrgState(rendered.subOrgSessions, org)
              IN /\ ~rendered.isParentSignedIn => calls'[c].result = "NotSignedIn"
                 /\ (rendered.isParentSignedIn /\ ~IsMember(org)) =>
                       calls'[c].result = "InvalidOrg"
                 /\ calls'[c].result = "AlreadyExists" =>
                       (rendered.isParentSignedIn /\ IsMember(org) /\ seen = "active")
                 /\ calls'[c].pc = "awaiting" <=>
                       (rendered.isParentSignedIn /\ IsMember(org) /\ seen # "active")
                 /\ calls'[c].pc = "done" <=> calls'[c].result # "none"]_vars

C31_Witness ==
    \E c \in CallIds :
        /\ calls[c].pc = "done" /\ calls[c].result = "InvalidOrg"
        /\ calls[c].organizationId = "orgB"
        /\ rendered.isParentSignedIn /\ ~IsMember("orgB")
        /\ OrgState(rendered.subOrgSessions, "orgB") = "active"

\* C32: the AlreadyExists check is made once, when the call starts, on the map the
\* call sees, and not when the exchange resolves: a call started while another call for
\* the same organization is awaiting passes the check as if that call did not exist,
\* and a resolving exchange returns the token and records the session of its call over
\* whatever the map holds by then, an active session of another call included.
C32_CheckedOnceLastWriterWins ==
    /\ [][\A c \in CallIds :
             /\ Started(c) =>
                   (calls'[c].result = "AlreadyExists" <=>
                       /\ rendered.isParentSignedIn
                       /\ IsMember(calls'[c].organizationId)
                       /\ OrgState(rendered.subOrgSessions, calls'[c].organizationId) = "active")
             /\ (calls[c].pc = "awaiting" /\ calls'[c].pc = "done"
                 /\ calls'[c].result # "ExchangeFailed") =>
                   /\ calls'[c].result = "token"
                   /\ subOrgSessions'[calls[c].organizationId].instanceId
                         = calls[c].subInstanceId]_vars
    /\ [][\A c \in CallIds :
             (/\ Started(c)
              /\ Awaiting(calls'[c].organizationId) # {}
              /\ rendered.isParentSignedIn
              /\ IsMember(calls'[c].organizationId)
              /\ OrgState(rendered.subOrgSessions, calls'[c].organizationId) # "active") =>
                 (calls'[c].pc = "awaiting" /\ calls'[c].during # 0)]_vars

C32_Witness ==
    /\ calls[1].result = "token" /\ calls[2].result = "token"
    /\ calls[1].organizationId = "orgA" /\ calls[2].organizationId = "orgA"
    /\ calls[1].subInstanceId = 1 /\ calls[2].subInstanceId = 2
    /\ calls[1].during = 2 /\ ~calls[1].peerDone
    /\ OrgState(subOrgSessions, "orgA") = "active"
    /\ subOrgSessions["orgA"].instanceId = 2

\* C33: a registration whose exchange resolves after signOutAllSubOrgs, or after
\* unregisterSubOrg for its organization, ran is recorded all the same as an active
\* session and returns its token, also when the parent is no longer signed in.
C33_InFlightRegistrationNotCancelled ==
    [][\A c \in CallIds :
          (calls[c].pc = "awaiting" /\ calls[c].overrun /\ calls'[c].pc = "done"
           /\ calls'[c].result # "ExchangeFailed") =>
              /\ calls'[c].result = "token"
              /\ OrgState(subOrgSessions', calls[c].organizationId) = "active"
              /\ subOrgSessions'[calls[c].organizationId].instanceId
                    = calls[c].subInstanceId]_vars

C33_Witness ==
    \E c \in CallIds :
        /\ calls[c].pc = "done" /\ calls[c].result = "token" /\ calls[c].overrun
        /\ ~calls[c].existed
        /\ ~rendered.isParentSignedIn
        /\ DOMAIN subOrgSessions = {calls[c].organizationId}
        /\ OrgState(subOrgSessions, calls[c].organizationId) = "active"

(* ===================== claims: URL state =============================== *)

\* The query string holds, at position k, a parameter `state` whose value starts with
\* instance_<i>- and goes on with at least one character other than &.
StateFor(i, params, k) ==
    LET head == <<"state=instance_">> \o Decimal(i) \o <<"-">>
    IN /\ params[k] \in {"?", "&"}
       /\ k + Len(head) + 1 <= Len(params)
       /\ SubSeq(params, k + 1, k + Len(head)) = head
       /\ params[k + Len(head) + 1] # "&"

\* The query string is ?state=instance_<i>-<value>, with a value of digits and hyphens.
WrittenFor(i, params) ==
    /\ Len(params) > 0
    /\ StateFor(i, params, 1)
    /\ \A k \in 2..Len(params) : params[k] \notin {"?", "&"}
    /\ \A k \in 3..Len(params) : params[k] # "state=instance_"

\* C40: hasCalledForThisInstanceInUrl(i, params) is true exactly when params holds a
\* parameter state, after ? or &, whose value starts with instance_<i>- followed by a
\* character other than &; a state written for one instance id never matches another.
C40_MatchesOwnStateOnly ==
    urlOut.instanceId # -1 =>
        /\ urlOut.result <=> \E k \in 1..Len(search) : StateFor(urlOut.instanceId, search, k)
        /\ \A i \in UrlIds \ {urlOut.instanceId} : WrittenFor(i, search) => ~urlOut.result
        /\ WrittenFor(urlOut.instanceId, search) => urlOut.result

\* C40 witness: the state of instance 10 does not match instance 1.
C40_Witness ==
    /\ search = <<"?", "state=instance_", "1", "0", "-", "1">>
    /\ urlOut.instanceId = 1 /\ ~urlOut.result

(* ===================== claims: status store ============================ *)

\* The record of instance j in a table, Null when it has none.
RecordOf(table, j) == IF j \in DOMAIN table THEN table[j] ELSE Null

\* C11: with storage working, getAllInstanceStatuses holds exactly one entry for each
\* instance that has set a status (and not cleared it since), stored under the
\* instance's own id and carrying the status of its latest setInstanceStatus call.
C11_OneEntryPerWriter ==
    (trusted /\ faults = {}) =>
        /\ DOMAIN getAllInstanceStatuses = {i \in StoreIds : latest[i] # "none"}
        /\ \A i \in DOMAIN getAllInstanceStatuses :
              /\ getAllInstanceStatuses[i].instanceId = i
              /\ getAllInstanceStatuses[i].status = latest[i]
        /\ storeOut.op = "getAllInstanceStatuses" =>
              storeOut.table = getAllInstanceStatuses

C11_Witness ==
    /\ trusted /\ faults = {}
    /\ storeOut.op = "getAllInstanceStatuses"
    /\ DOMAIN storeOut.table = StoreIds
    /\ storeOut.table[0].status = "authenticated"
    /\ storeOut.table[1].status = "initializing"

\* C12: when the read and the write of setInstanceStatus calls of different instances
\* interleave, every record in the table is stored under its owner's id and carries a
\* status its owner asked for (a record of another instance is lost or set back, never
\* made up or changed); right after a call's write the caller's own slot holds the
\* status of that call, which also restores a record lost before; and a poll that
\* finds no record before the timeout continues.
C12_RaceLosesOnlyOthersRecords ==
    /\ \A k \in DOMAIN Persisted :
          /\ Persisted[k].instanceId = k
          /\ Persisted[k].status \in requested[k]
    /\ storeOut.op = "setInstanceStatus" =>
          /\ storeOut.instanceId \in DOMAIN Persisted
          /\ Persisted[storeOut.instanceId].status = storeOut.status
    /\ \A a \in WaitArgs :
          (a[1] > 0 /\ getInstanceStatus(ParentId) = Null) =>
              checkParentStatus(0, a[1], getInstanceStatus(ParentId), now) = "continue"

\* A record written by instance j has been lost to the write of another instance.
C12_Witness ==
    \E j \in StoreIds :
        /\ requested[j] # {}
        /\ racers[j].pc = "idle"
        /\ j \notin DOMAIN Persisted
        /\ storeOut.op = "setInstanceStatus"
        /\ storeOut.instanceId # j
        /\ (j = ParentId => \A a \in WaitArgs :
               a[1] > 0 => checkParentStatus(0, a[1], getInstanceStatus(j), now) = "continue")

\* C34 (as stated): an instance that has cleared its record and has not called
\* setInstanceStatus since has no record in the stored table, however the reads and
\* writes of the other instances interleave with the clear.
C34_Original ==
    \A i \in StoreIds :
        (requested[i] = {} /\ racers[i].pc = "idle") => i \notin DOMAIN Persisted

\* C13 (as stated): in every storage condition, a call setInstanceStatus(i, s) leaves
\* the records of all other instances in the stored table as they were.
C13_Original ==
    [][storeOut'.op = "setInstanceStatus" =>
          \A j \in StoreIds \ {storeOut'.instanceId} :
              RecordOf(Persisted', j) = RecordOf(Persisted, j)]_vars

\* C14: no store function lets an exception out; while sessionStorage throws,
\* getInstanceStatus returns null and getAllInstanceStatuses returns {}, and the
\* writing functions leave the stored item as it is.
C14_StorageFailuresContained ==
    /\ ~storeOut.threw
    /\ ("getItem" \in faults /\ storeOut.op = "getInstanceStatus") => storeOut.record = Null
    /\ ("getItem" \in faults /\ storeOut.op = "getAllInstanceStatuses") => storeOut.table = <<>>

C14_Witness ==
    /\ faults = StorageOps
    /\ storeOut.op = "getInstanceStatus"
    /\ storeOut.instanceId \in DOMAIN Persisted
    /\ storeOut.record = Null

\* C15: isParentReady returns true exactly when the record it reads for the parent has
\* status authenticated (false for no record and for every other status), and the
\* call changes neither the table nor the clock nor any poll timer.
C15_IsParentReadySingleRead ==
    /\ [](storeOut.op = "isParentReady" =>
            (storeOut.ready <=>
                /\ storeOut.instanceId \in DOMAIN getAllInstanceStatuses
                /\ getAllInstanceStatuses[storeOut.instanceId].status = "authenticated"))
    /\ [][storeOut'.op = "isParentReady" => UNCHANGED <<urlVars, storage, wait, now, timers>>]_vars

C15_Witness ==
    /\ storeOut.op = "isParentReady"
    /\ ~storeOut.ready
    /\ getInstanceStatus(storeOut.instanceId) # Null
    /\ getInstanceStatus(storeOut.instanceId).status = "idle"

\* C16: with storage working, clearInstanceStatus(i) removes the record of i and
\* leaves every other record as it was, clearAllInstanceStatuses removes every record,
\* and getInstanceStatus of a removed id then returns null.
C16_ClearRemovesOnlyOwnRecord ==
    [][faults = {} =>
          /\ \A i \in StoreIds :
                (storeOut'.op = "clearInstanceStatus" /\ storeOut'.instanceId = i) =>
                    /\ i \notin DOMAIN Persisted'
                    /\ getInstanceStatus(i)' = Null
                    /\ \A j \in StoreIds \ {i} :
                          RecordOf(Persisted', j) = RecordOf(Persisted, j)
          /\ storeOut'.op = "clearAllInstanceStatuses" =>
                /\ Persisted' = <<>>
                /\ \A j \in StoreIds : getInstanceStatus(j)' = Null]_vars

C16_Witness ==
    /\ faults = {}
    /\ storeOut.op = "clearInstanceStatus"
    /\ storeOut.instanceId = 1
    /\ ParentId \in DOMAIN Persisted

(* ===================== claims: handlers ================================ *)

C18_Original ==
    (out.kind \in {"success", "error"} /\ client[out.id].isHandlerEnabled) =>
        /\ client[out.id].callbacks[out.kind] # "noop" =>
              (out.fired # <<>> /\ out.fired[1] = out.kind)
        /\ client[out.id].callbacks["finish"] # "noop" =>
              /\ out.fired # <<>>
              /\ out.fired[Len(out.fired)] = "finish"
              /\ Cardinality({k \in DOMAIN out.fired : out.fired[k] = "finish"}) = 1

\* C19 (as stated): errorHandler always throws the error it was given and
\* successHandler always returns the response it was given, with the handler enabled
\* or disabled.
C19_Original ==
    /\ out.kind = "error" => out.result = "error"
    /\ out.kind = "success" => out.result = "response"

\* C20 (as stated): when a callback throws in a handler, the other callbacks of that
\* handler that are set still fire, and the request, response or error leaves the
\* handler as it would have without the exception.
C20_Original ==
    (out.kind \in HandlerKinds /\ out.threw) =>
        /\ out.fired = Registered(out.id, StageSlots(out.kind))
        /\ out.result = (IF out.kind = "request" THEN "request"
                         ELSE IF out.kind = "success" THEN "response" ELSE "error")

\* C36 (as stated): each handler run decides by the flag as it is at that moment:
\* nothing fires while the token is being attached or when the attachment fails; after
\* the attachment the start callback fires exactly when the flag is set; and when the
\* response or error is handled the success (or error) callback and the finish
\* callback fire exactly when the flag is set then.
C36_Original ==
    /\ out.kind \in {"attach", "attach-failed"} => out.fired = <<>>
    /\ out.kind \in HandlerKinds =>
          out.fired = IF client[out.id].isHandlerEnabled
                      THEN Registered(out.id, StageSlots(out.kind))
                      ELSE <<>>

(* ===================== claims: pipelines =============================== *)

\* The configuration of pipeline m: the fields of its HttpClient and the flag kept on
\* its axios instance.
PipelineState(m) == <<client[m], facade[m]>>

\* A step is a call on pipeline n (or the timer of a timed disable of n).
StepOn(n) ==
    \/ \E e \in BOOLEAN, a \in Attachers : init(n, e, a)
    \/ enableHandler(n)
    \/ disableHandler(n)
    \/ \E ms \in DisableArgs \cup {10} : disableHandlerWithTimeout(n, ms)
    \/ \E tm \in timers : tm.id = n /\ HandlerTimer(tm)
    \/ \E sl \in Slots, cb \in CallbackArgs : SetCallback(n, sl, cb)
    \/ getInstance(n)

\* C21: getInstance(N) returns the object stored for N, the same on every call (the
\* object of an id never changes once created, and no argument means id 0), different
\* ids have different objects, and the handler flag, the attacher and the callbacks of
\* a pipeline M change only in a call on pipeline M (or in the timer of its timed
\* disable), never in a call on another pipeline.
C21_PipelinesAreIsolated ==
    /\ [](/\ out.kind = "getInstance" => (out.object # 0 /\ out.object = instances[out.id])
          /\ \A n, m \in PipeIds :
                (n # m /\ instances[n] # 0) => instances[n] # instances[m])
    /\ [][/\ \A n \in PipeIds : instances[n] # 0 => instances'[n] = instances[n]
          /\ \A m \in PipeIds :
                PipelineState(m)' # PipelineState(m) => StepOn(m)]_vars

C21_Witness ==
    /\ out.kind = "getInstance" /\ out.id = 0 /\ out.object = 2
    /\ instances[1] = 1
    /\ client[1].callbacks["start"] = "ok" /\ client[0].callbacks["start"] = "noop"
    /\ ~client[1].isHandlerEnabled /\ client[0].isHandlerEnabled
    /\ facade[0] = "false" /\ facade[1] = "unset"

\* C22: after an init call the pipeline holds the attacher of the last init call and
\* requests invoke that attacher; its handler flag is the flag of the last init call
\* as long as nothing else has set a handler flag since.
C22_LastInitWins ==
    \A id \in PipeIds :
        lastInit[id].attachToken # "none" =>
            /\ client[id].attachToken = lastInit[id].attachToken
            /\ (out.kind = "attach" /\ out.id = id) =>
                  out.attacher = lastInit[id].attachToken
            /\ lastInit[id].pure =>
                  client[id].isHandlerEnabled = lastInit[id].isHandlerEnabled

\* A request after a second init with other arguments.
C22_Witness ==
    /\ out.kind = "attach" /\ out.id = PipeId
    /\ out.attacher = "attacherB"
    /\ lastInit[PipeId].pure /\ ~lastInit[PipeId].isHandlerEnabled
    /\ ~client[PipeId].isHandlerEnabled
    /\ req.attacher = "attacherB"

====
